---- MODULE Spec2Model ----
(***************************************************************************)
(* Ticket map generator (src/generate.py): the geocoding resolver with its *)
(* variant retry, locality fallback and geo-cache, and the ticket filter   *)
(* and marker builder that calls it once per ticket.                       *)
(*                                                                         *)
(* Python values are modelled as follows.  A string is a sequence of       *)
(* tokens (single characters, or a whole word of a fixed suffix).  An      *)
(* optional value (None or a value) is a sequence of length 0 or 1, and    *)
(* coordinates are <<>> (None) or <<lat, lon>>, so that Python truthiness  *)
(* is "the sequence is not empty".                                         *)
(***************************************************************************)
EXTENDS Integers, Sequences, FiniteSets, TLC

\* ------------------------------------------------------------------ bounds
MaxTickets == 2     \* longest ticket list handed to the marker builder
MaxLat == 2         \* latitudes the geocoder answers with are 0..MaxLat
RadiusKm == 1       \* config['radius_km'], in the kilometres of the model's grid
MaxPieces == 2      \* a status text is put together from at most MaxPieces pieces
MaxTimeout == 2     \* --cache-timeout is one of 0..MaxTimeout hours
MaxTime == 3        \* the clock runs from hour 0 to hour MaxTime
MaxRuns == 2        \* the change-detecting program is started 1 + MaxRuns times

\* --------------------------------------------------------------- constants
None == <<>>
Some(x) == <<x>>

\* ticket addresses: without a comma, with a locality after the comma, with
\* two commas and blanks around the last part, with nothing after the comma
AddrPlain == <<"a">>
AddrCity == <<"a", ",", " ", "b">>
AddrTwo == <<"a", ",", "b", ",", " ", "c", " ">>
AddrBare == <<"a", ",", " ">>
Addresses == {AddrPlain, AddrCity, AddrTwo, AddrBare}

Coords == {<<lat, 0>> : lat \in 0..MaxLat}

\* config['center_point'] and config['radius_km']
center_point == <<0, 0>>
radius_km == RadiusKm

\* ---------------------------------------------------------- string helpers
\* str.strip(): blanks removed at both ends
RECURSIVE strip(_)
strip(s) ==
    IF s = <<>> THEN s
    ELSE IF Head(s) = " " THEN strip(Tail(s))
    ELSE IF s[Len(s)] = " " THEN strip(SubSeq(s, 1, Len(s) - 1))
    ELSE s

HasComma(s) == \E k \in 1..Len(s) : s[k] = ","

\* address.split(',')[-1]: the text after the last comma
AfterLastComma(s) ==
    LET k == CHOOSE j \in 1..Len(s) : s[j] = "," /\ \A m \in (j + 1)..Len(s) : s[m] # ","
    IN  SubSeq(s, k + 1, Len(s))

\* the text after the FIRST comma, as address.split(',')[1:] joined would give
AfterFirstComma(s) ==
    LET k == CHOOSE j \in 1..Len(s) : s[j] = "," /\ \A m \in 1..(j - 1) : s[m] # ","
    IN  SubSeq(s, k + 1, Len(s))

extract_city_first(address) ==
    IF HasComma(address) THEN Some(strip(AfterFirstComma(address))) ELSE None

extract_city(address) ==
    IF HasComma(address) THEN Some(strip(AfterLastComma(address))) ELSE None

\* Python truthiness of an optional string: not None and not ''
Truthy(opt) == opt # None /\ opt[1] # <<>>

SuffixEN == <<",", " ", "South Tyrol", ",", " ", "Italy">>
SuffixDE == <<",", " ", "Suedtirol", ",", " ", "Italien">>

variants_swapped(address) == <<address \o SuffixDE, address \o SuffixEN, address>>

variants(address) == <<address \o SuffixEN, address \o SuffixDE, address>>

locality_query(ortsteil) == ortsteil \o SuffixEN

\* ------------------------------------------------------------ status texts
\* the letters str.lower() changes, and what it changes them to
UpperCase == <<"A", "B", "C", "D", "E", "F", "G", "H", "I", "J", "K", "L", "M", "N", "O", "P", "Q", "R", "S", "T", "U", "V", "W", "X", "Y", "Z">>
LowerCase == <<"a", "b", "c", "d", "e", "f", "g", "h", "i", "j", "k", "l", "m", "n", "o", "p", "q", "r", "s", "t", "u", "v", "w", "x", "y", "z">>

lower_char(c) ==
    IF \E k \in 1..Len(UpperCase) : UpperCase[k] = c
    THEN LowerCase[CHOOSE k \in 1..Len(UpperCase) : UpperCase[k] = c]
    ELSE c

\* str.lower()
lower(s) == [k \in 1..Len(s) |-> lower_char(s[k])]

\* str.replace(" ", "")
RECURSIVE replace_blanks(_)
replace_blanks(s) ==
    IF s = <<>> THEN <<>>
    ELSE IF Head(s) = " " THEN replace_blanks(Tail(s))
    ELSE <<Head(s)>> \o replace_blanks(Tail(s))

\* w in s
Contains(s, w) == \E k \in 1..(Len(s) - Len(w) + 1) : SubSeq(s, k, k + Len(w) - 1) = w

W_erledigt == <<"e", "r", "l", "e", "d", "i", "g", "t">>
W_bearbeitung == <<"b", "e", "a", "r", "b", "e", "i", "t", "u", "n", "g">>
W_offen == <<"o", "f", "f", "e", "n">>

\* normalize_status with "offen" looked for first
normalize_status_offen_first(status) ==
    LET s == replace_blanks(lower(status))
    IN  IF Contains(s, W_offen) THEN "offen"
        ELSE IF Contains(s, W_bearbeitung) THEN "in bearbeitung"
        ELSE IF Contains(s, W_erledigt) THEN "erledigt"
        ELSE "None"

\* normalize_status: the key of STATUS_COLOR, "None" for Python's None
normalize_status(status) ==
    LET s == replace_blanks(lower(status))
    IN  IF Contains(s, W_erledigt) THEN "erledigt"
        ELSE IF Contains(s, W_bearbeitung) THEN "in bearbeitung"
        ELSE IF Contains(s, W_offen) THEN "offen"
        ELSE "None"

DEFAULT_MARKER_COLOR == "blue"
APPROXIMATE_MARKER_COLOR == "black"

\* STATUS_COLOR.get(key, DEFAULT_MARKER_COLOR)
STATUS_COLOR(key) ==
    IF key = "offen" THEN "red"
    ELSE IF key = "in bearbeitung" THEN "orange"
    ELSE IF key = "erledigt" THEN "green"
    ELSE DEFAULT_MARKER_COLOR

\* get_marker_color(ticket, is_approximate); a ticket without "Status" has ''
get_marker_color(ticket, is_approximate) ==
    IF is_approximate
    THEN APPROXIMATE_MARKER_COLOR
    ELSE STATUS_COLOR(normalize_status(strip(ticket.Status)))

\* the texts a status is put together from
StatusPieces == {<<"E", "r", "l", "e", "d", "i", "g", "t">>,
                 <<"I", "n", " ", "B", "e", "a", "r", "b", "e", "i", "t", "u", "n", "g">>,
                 <<"O", "F", "F", "E", "N">>,
                 <<"o", "f", " ", "f", "e", "n">>,
                 <<"e", "r", "l", "e">>,
                 <<"d", "i", "g", "t">>,
                 <<" ">>,
                 <<"n", "e", "u">>}

\* one ticket of the API answer (the fields the marker builder reads); the
\* last one has no "Status", which ticket.get("Status", "") reads as ''
Tickets == {[Id |-> 1, Address |-> AddrPlain, Status |-> <<"o", "f", "f", "e", "n">>],
            [Id |-> 2, Address |-> AddrCity, Status |-> <<"I", "n", " ", "B", "e", "a", "r", "b", "e", "i", "t", "u", "n", "g">>],
            [Id |-> 3, Address |-> AddrTwo, Status |-> <<"E", "r", "l", "e", "d", "i", "g", "t">>],
            [Id |-> 4, Address |-> AddrBare, Status |-> <<>>]}

RECURSIVE SeqsUpTo(_, _)
SeqsUpTo(S, n) ==
    IF n = 0 THEN {<<>>}
    ELSE LET shorter == SeqsUpTo(S, n - 1)
         IN  shorter \cup {Append(s, x) : s \in {t \in shorter : Len(t) = n - 1}, x \in S}

TicketLists == SeqsUpTo(Tickets, MaxTickets)

\* ------------------------------------------------------------ cache entries
NoEntry == [form |-> "absent", coords |-> None, is_approx |-> FALSE, ortsteil |-> None, py |-> "none"]

\* the legacy entry [lat, lon] as json.load gives it
Legacy(c) == [form |-> "two", coords |-> c, is_approx |-> FALSE, ortsteil |-> None, py |-> "list"]

\* the entry (coords, is_approx, ortsteil); py tells whether it is the tuple
\* the resolver wrote or the list json.load gives
Three(c, approx, ort, py) == [form |-> "three", coords |-> c, is_approx |-> approx, ortsteil |-> ort, py |-> py]

\* what a resolve call returns: (coords, is_approx, ortsteil); py is the
\* Python type of coords ("none" for None)
Result(c, approx, ort, py) == [coords |-> c, is_approx |-> approx, ortsteil |-> ort, py |-> py]

NotFound == Result(None, FALSE, None, "none")
NoResult == [coords |-> None, is_approx |-> FALSE, ortsteil |-> None, py |-> "unset"]

EmptyCache == [a \in Addresses |-> NoEntry]

\* json.dump writes tuples as arrays; json.load reads arrays as lists
ToJson(e) == IF e.form = "absent" THEN e ELSE [e EXCEPT !.py = "list"]

\* geocoder answers: a location, no location (None), or an exception
Located(c) == [kind |-> "location", coords |-> c]
NoLocation == [kind |-> "none", coords |-> None]
Raised == [kind |-> "raise", coords |-> None]
Outcomes == {Located(c) : c \in Coords} \cup {NoLocation, Raised}

\* geodesic(p, q).km of the geopy library, on the grid of the model: the
\* points lie on one meridian, one unit of latitude is one kilometre
Abs(n) == IF n < 0 THEN -n ELSE n
geodesic(p, q) == Abs(p[1] - q[1]) + Abs(p[2] - q[2])

\* ------------------------------------------------------------------- state
VARIABLES
    geoFile,        \* content of GEO_CACHE_FILE on disk
    geo_cache,      \* the dict generate_map loaded and hands to the builder
    pc,             \* position of the run
    data,           \* the ticket list of this run
    i,              \* index of the ticket the builder's loop is at
    markers,        \* markers built so far
    warning_list,   \* warnings built so far
    v,              \* index of the variant the resolver tries next
    calls,          \* geocoder calls of the current resolve: query and outcome
    ret,            \* what the current resolve returned
    how,            \* which branch of the resolver returned
    pre,            \* geo_cache as it was when the current resolve began
    upgrades,       \* per address, how often a legacy entry was rewritten
    configFile,     \* whether CONFIG_FILE exists
    apiFile,        \* content of CACHE_FILE on disk
    now,            \* datetime.now(), in hours
    contacted,      \* requests the current call sent to the ticket API
    req,            \* arguments and surroundings of the current call
    mapFile,        \* content of OUTPUT_MAP_FILE on disk
    first,          \* what the first of two builder passes returned
    runs            \* runs of the program that have ended

aux == <<configFile, apiFile, now, contacted, req, mapFile, first, runs>>

vars == <<geoFile, geo_cache, pc, data, i, markers, warning_list,
          v, calls, ret, how, pre, upgrades, aux>>

\* the ticket snapshot file CACHE_FILE: absent, a JSON object with a
\* timestamp and the tickets, or a bare JSON list of tickets
NoTimestamp == [kind |-> "missing", t |-> 0]
Malformed == [kind |-> "malformed", t |-> 0]
Iso(t) == [kind |-> "iso", t |-> t]
NoFile == [kind |-> "absent", timestamp |-> NoTimestamp, data |-> <<>>]
Snapshot(ts, d) == [kind |-> "dict", timestamp |-> ts, data |-> d]
BareList(d) == [kind |-> "list", timestamp |-> NoTimestamp, data |-> d]

\* what the ticket API does with a request: it answers with the tickets d,
\* or the request ends in a timeout, an HTTP error or another exception
ApiOk(d) == [kind |-> "ok", data |-> d]
ApiFailures == {[kind |-> k, data |-> <<>>] : k \in {"timeout", "http", "error"}}
ApiOutcomes(lists) == {ApiOk(d) : d \in lists} \cup ApiFailures

\* --cache-timeout, in hours
Timeouts == 0..MaxTimeout

\* before the program runs: no ticket snapshot and no map have been written,
\* no call is under way
InitAux ==
    /\ apiFile = NoFile
    /\ now = 0
    /\ contacted = 0
    /\ req = None
    /\ mapFile = None
    /\ first = None
    /\ runs = 0

\* the geo-cache file a run can find: empty, or holding one entry that an
\* earlier run (three fields) or an earlier version of the program (two
\* numbers) wrote, here for a place at the center point
InitFiles ==
    {EmptyCache}
    \cup {[EmptyCache EXCEPT ![a] = Legacy(center_point)] : a \in Addresses}
    \cup {[EmptyCache EXCEPT ![a] = Three(center_point, FALSE, None, "list")] : a \in Addresses}
    \cup {[EmptyCache EXCEPT ![a] = Three(center_point, TRUE, extract_city(a), "list")] :
              a \in {x \in Addresses : Truthy(extract_city(x))}}

Init ==
    /\ configFile \in {"present", "missing"}
    /\ geoFile \in InitFiles
    /\ geo_cache = EmptyCache
    /\ pc = "main"
    /\ data = <<>>
    /\ i = 1
    /\ markers = <<>>
    /\ warning_list = <<>>
    /\ v = 1
    /\ calls = <<>>
    /\ ret = NoResult
    /\ how = "none"
    /\ pre = EmptyCache
    /\ upgrades = [a \in Addresses |-> 0]
    /\ InitAux

\* ----------------------------------------------------------------- actions
\* load_json_cache(GEO_CACHE_FILE): every entry as json.load gives it
load_json_cache(file) == [a \in Addresses |-> ToJson(file[a])]

\* save_json_cache(GEO_CACHE_FILE, geo_cache): every entry as json.dump writes it
save_json_cache(cache) == [a \in Addresses |-> ToJson(cache[a])]

\* the address of the ticket the loop is at: ticket.get('Address', '')
address == data[i].Address

\* load_config with a missing file answered by an empty configuration
load_config_empty(cfg) == "config"

\* load_config: the configuration is returned if CONFIG_FILE exists, else
\* FileNotFoundError is raised; the result is where main goes on
load_config(cfg) == IF cfg = "present" THEN "config" ELSE "FileNotFoundError"

\* main: arguments are parsed and the configuration is loaded
LoadConfig ==
    /\ pc = "main"
    /\ pc' = load_config(configFile)
    /\ UNCHANGED <<geoFile, geo_cache, data, i, markers, warning_list,
                   v, calls, ret, how, pre, upgrades, aux>>

\* fetch_data_from_api: the tickets of the answer, [] on any failure
fetch_data_from_api(api) == IF api.kind = "ok" THEN api.data ELSE <<>>

\* bool(cache) of what load_json_cache(CACHE_FILE) returned: {} for a missing
\* file, a dict with keys, or a list
CacheTruthy(file) ==
    \/ file.kind = "dict"
    \/ file.kind = "list" /\ file.data # <<>>

\* get_ticket_data that takes a snapshot without tickets for no snapshot
get_ticket_data_distrusts_empty(file, use_cache, cache_timeout_hours, t, api) ==
    LET fresh == [pc |-> "fetched", data |-> fetch_data_from_api(api), contacted |-> 1,
                  apiFile |-> Snapshot(Iso(t), fetch_data_from_api(api))]
    IN  IF use_cache /\ CacheTruthy(file) /\ file.data # <<>>
        THEN IF file.kind = "list"
             THEN [pc |-> "AttributeError", data |-> <<>>, contacted |-> 0, apiFile |-> file]
             ELSE IF file.timestamp.kind = "iso" /\ t - file.timestamp.t < cache_timeout_hours
             THEN [pc |-> "cached", data |-> file.data, contacted |-> 0, apiFile |-> file]
             ELSE fresh
        ELSE fresh

\* get_ticket_data(token, use_cache, cache_timeout_hours) at the hour t, with
\* CACHE_FILE holding `file` and the API answering `api`: how the call ends
\* (pc), what it returns (data), how many requests it sent and what it
\* leaves in CACHE_FILE.  cache.get on a list raises AttributeError, which
\* the except clause for (ValueError, TypeError) does not catch.
get_ticket_data(file, use_cache, cache_timeout_hours, t, api) ==
    LET fresh == [pc |-> "fetched", data |-> fetch_data_from_api(api), contacted |-> 1,
                  apiFile |-> Snapshot(Iso(t), fetch_data_from_api(api))]
    IN  IF use_cache /\ CacheTruthy(file)
        THEN IF file.kind = "list"
             THEN [pc |-> "AttributeError", data |-> <<>>, contacted |-> 0, apiFile |-> file]
             ELSE IF file.timestamp.kind = "iso" /\ t - file.timestamp.t < cache_timeout_hours
             THEN [pc |-> "cached", data |-> file.data, contacted |-> 0, apiFile |-> file]
             ELSE fresh
        ELSE fresh

\* the hour at which the request of the call before this one failed, if that
\* call sent a request and it failed
FailedBefore ==
    IF req # None /\ pc = "called" /\ req[1].result = "fetched" /\ req[1].api.kind # "ok"
    THEN Some(req[1].at)
    ELSE None

\* generate_map, step 1: get_ticket_data runs from its first to its last
\* line, with config['use_cache'] and --cache-timeout as the user set them
\* and the API answering with one of `lists` or failing
GetTicketData(lists) ==
    /\ pc \in {"config", "called"}
    /\ \E use_cache \in BOOLEAN, cache_timeout_hours \in Timeouts, api \in ApiOutcomes(lists) :
        LET r == get_ticket_data(apiFile, use_cache, cache_timeout_hours, now, api)
        IN  /\ pc' = r.pc
            /\ data' = IF r.pc = "AttributeError" THEN data ELSE r.data
            /\ contacted' = r.contacted
            /\ apiFile' = r.apiFile
            /\ req' = Some([use_cache |-> use_cache,
                            cache_timeout_hours |-> cache_timeout_hours,
                            api |-> api, file |-> apiFile, at |-> now,
                            result |-> r.pc, after_failure |-> FailedBefore])
    /\ UNCHANGED <<geoFile, geo_cache, i, markers, warning_list, v, calls, ret, how,
                   pre, upgrades, configFile, now, mapFile, first, runs>>

\* generate_map, step 2, and the head of process_tickets_to_markers: the geo
\* cache is loaded and the builder starts on the tickets d with empty lists
StartBuild(d) ==
    /\ pc \in {"fetched", "cached"}
    /\ geo_cache' = load_json_cache(geoFile)
    /\ data' = d
    /\ i' = 1
    /\ markers' = <<>>
    /\ warning_list' = <<>>
    /\ req' = None
    /\ pc' = "loop"
    /\ UNCHANGED <<geoFile, v, calls, ret, how, pre, upgrades,
                   configFile, apiFile, now, contacted, mapFile, first, runs>>

\* the cache check with the legacy branch returning without the rewrite
cache_check_no_rewrite(addr, cache) ==
    LET entry == cache[addr]
    IN  IF entry.form = "two"
        THEN [geo_cache |-> cache, ret |-> Result(entry.coords, FALSE, None, "tuple"),
              how |-> "upgrade", pc |-> "returned"]
        ELSE IF entry.form = "three"
        THEN [geo_cache |-> cache,
              ret |-> Result(entry.coords, entry.is_approx, entry.ortsteil, entry.py),
              how |-> "hit", pc |-> "returned"]
        ELSE [geo_cache |-> cache, ret |-> NoResult, how |-> "none", pc |-> "variant"]

\* the cache check with approximate entries looked up again
cache_check_retry_approx(addr, cache) ==
    LET entry == cache[addr]
    IN  IF entry.form = "two"
        THEN [geo_cache |-> [cache EXCEPT ![addr] = Three(entry.coords, FALSE, None, "tuple")],
              ret |-> Result(entry.coords, FALSE, None, "tuple"),
              how |-> "upgrade", pc |-> "returned"]
        ELSE IF entry.form = "three" /\ ~entry.is_approx
        THEN [geo_cache |-> cache,
              ret |-> Result(entry.coords, entry.is_approx, entry.ortsteil, entry.py),
              how |-> "hit", pc |-> "returned"]
        ELSE [geo_cache |-> cache, ret |-> NoResult, how |-> "none", pc |-> "variant"]

\* get_coordinates_extended, the cache check on `addr`: what it returns and
\* what it leaves in the cache.  A legacy entry [lat, lon] is rewritten to
\* (tuple(entry), False, None) and returned, a three-field entry is returned
\* as it is, and anything else goes on to the geocoder (pc "variant").
cache_check(addr, cache) ==
    LET entry == cache[addr]
    IN  IF entry.form = "two"
        THEN [geo_cache |-> [cache EXCEPT ![addr] = Three(entry.coords, FALSE, None, "tuple")],
              ret |-> Result(entry.coords, FALSE, None, "tuple"),
              how |-> "upgrade", pc |-> "returned"]
        ELSE IF entry.form = "three"
        THEN [geo_cache |-> cache,
              ret |-> Result(entry.coords, entry.is_approx, entry.ortsteil, entry.py),
              how |-> "hit", pc |-> "returned"]
        ELSE [geo_cache |-> cache, ret |-> NoResult, how |-> "none", pc |-> "variant"]

ResolveBegin ==
    /\ pc = "loop"
    /\ i <= Len(data)
    /\ LET r == cache_check(address, geo_cache)
       IN  /\ geo_cache' = r.geo_cache
           /\ ret' = r.ret
           /\ how' = r.how
           /\ pc' = r.pc
           /\ upgrades' = IF r.how = "upgrade"
                          THEN [upgrades EXCEPT ![address] = @ + 1]
                          ELSE upgrades
    /\ pre' = geo_cache
    /\ calls' = <<>>
    /\ v' = 1
    /\ UNCHANGED <<geoFile, data, i, markers, warning_list, aux>>

\* the loop over the variants with the exception of a call propagating
try_variant_propagates(addr, k, o, cache) ==
    IF o.kind = "location"
    THEN [geo_cache |-> [cache EXCEPT ![addr] = Three(o.coords, FALSE, None, "tuple")],
          ret |-> Result(o.coords, FALSE, None, "tuple"),
          how |-> "variant", pc |-> "returned", v |-> k]
    ELSE IF o.kind = "raise"
    THEN [geo_cache |-> cache, ret |-> NoResult, how |-> "none", pc |-> "raised", v |-> k]
    ELSE IF k < Len(variants(addr))
    THEN [geo_cache |-> cache, ret |-> NoResult, how |-> "none", pc |-> "variant", v |-> k + 1]
    ELSE IF Truthy(extract_city(addr))
    THEN [geo_cache |-> cache, ret |-> NoResult, how |-> "none", pc |-> "locality", v |-> k + 1]
    ELSE [geo_cache |-> cache, ret |-> NotFound, how |-> "fail", pc |-> "returned", v |-> k + 1]

\* get_coordinates_extended, one turn of the loop over the variants, the
\* geocoder answering o to variants[k].  A location is cached as
\* (coords, False, None) and returned; None and an exception (caught and
\* logged) go on to the next variant.  After the last variant the locality is
\* derived (extract_city): with one the fallback query follows, without one
\* the call returns (None, False, None) and writes nothing.
try_variant(addr, k, o, cache) ==
    IF o.kind = "location"
    THEN [geo_cache |-> [cache EXCEPT ![addr] = Three(o.coords, FALSE, None, "tuple")],
          ret |-> Result(o.coords, FALSE, None, "tuple"),
          how |-> "variant", pc |-> "returned", v |-> k]
    ELSE IF k < Len(variants(addr))
    THEN [geo_cache |-> cache, ret |-> NoResult, how |-> "none", pc |-> "variant", v |-> k + 1]
    ELSE IF Truthy(extract_city(addr))
    THEN [geo_cache |-> cache, ret |-> NoResult, how |-> "none", pc |-> "locality", v |-> k + 1]
    ELSE [geo_cache |-> cache, ret |-> NotFound, how |-> "fail", pc |-> "returned", v |-> k + 1]

GeocodeVariant(o) ==
    /\ pc = "variant"
    /\ calls' = Append(calls, [query |-> variants(address)[v], outcome |-> o])
    /\ LET r == try_variant(address, v, o, geo_cache)
       IN  /\ geo_cache' = r.geo_cache
           /\ ret' = r.ret
           /\ how' = r.how
           /\ pc' = r.pc
           /\ v' = r.v
    /\ UNCHANGED <<geoFile, data, i, markers, warning_list, pre, upgrades, aux>>

\* the fallback with the failure cached as (None, False, None)
try_locality_caches_failure(addr, o, cache) ==
    LET ortsteil == extract_city(addr)
    IN  IF o.kind = "location"
        THEN [geo_cache |-> [cache EXCEPT ![addr] = Three(o.coords, TRUE, ortsteil, "tuple")],
              ret |-> Result(o.coords, TRUE, ortsteil, "tuple"),
              how |-> "locality", pc |-> "returned"]
        ELSE [geo_cache |-> [cache EXCEPT ![addr] = Three(None, FALSE, None, "tuple")],
              ret |-> NotFound, how |-> "fail", pc |-> "returned"]

\* get_coordinates_extended, the fallback: the geocoder answers o to
\* "{ortsteil}, South Tyrol, Italy".  A location is cached as
\* (coords, True, ortsteil) and returned; None and an exception end the call
\* with (None, False, None) and no cache write.
try_locality(addr, o, cache) ==
    LET ortsteil == extract_city(addr)
    IN  IF o.kind = "location"
        THEN [geo_cache |-> [cache EXCEPT ![addr] = Three(o.coords, TRUE, ortsteil, "tuple")],
              ret |-> Result(o.coords, TRUE, ortsteil, "tuple"),
              how |-> "locality", pc |-> "returned"]
        ELSE [geo_cache |-> cache, ret |-> NotFound, how |-> "fail", pc |-> "returned"]

GeocodeLocality(o) ==
    /\ pc = "locality"
    /\ calls' = Append(calls, [query |-> locality_query(extract_city(address)[1]), outcome |-> o])
    /\ LET r == try_locality(address, o, geo_cache)
       IN  /\ geo_cache' = r.geo_cache
           /\ ret' = r.ret
           /\ how' = r.how
           /\ pc' = r.pc
    /\ UNCHANGED <<geoFile, data, i, markers, warning_list, v, pre, upgrades, aux>>

\* process_tickets_to_markers, the rest of the loop body for the ticket t
\* whose address resolved to res: the lists as they are after the ticket.
\* Coordinates within radius_km give a marker, and a warning "approximate"
\* with the locality when the resolution was approximate; coordinates beyond
\* it give nothing; no coordinates give a warning "not_found".
Marker(t, res) == [coords |-> res.coords, color |-> get_marker_color(t, res.is_approx), ticket_id |-> t.Id]
Warning(t, reason, ort) == [ticket_id |-> t.Id, address |-> t.Address, reason |-> reason, ortsteil |-> ort]

\* the loop body without the warning for an approximate resolution
after_resolve_no_approx_warning(t, res, radius, ms, ws) ==
    IF res.coords # None
    THEN IF geodesic(center_point, res.coords) <= radius
         THEN [markers |-> Append(ms, Marker(t, res)), warning_list |-> ws]
         ELSE [markers |-> ms, warning_list |-> ws]
    ELSE [markers |-> ms, warning_list |-> Append(ws, Warning(t, "not_found", None))]

\* the loop body skipping a ticket that was not found without a warning
after_resolve_silent_not_found(t, res, radius, ms, ws) ==
    IF res.coords # None
    THEN IF geodesic(center_point, res.coords) <= radius
         THEN [markers |-> Append(ms, Marker(t, res)),
               warning_list |-> IF res.is_approx
                                THEN Append(ws, Warning(t, "approximate", res.ortsteil))
                                ELSE ws]
         ELSE [markers |-> ms, warning_list |-> ws]
    ELSE [markers |-> ms, warning_list |-> ws]

\* the loop body with the radius test distance < radius_km
after_resolve_strict(t, res, radius, ms, ws) ==
    IF res.coords # None
    THEN IF geodesic(center_point, res.coords) < radius
         THEN [markers |-> Append(ms, Marker(t, res)),
               warning_list |-> IF res.is_approx
                                THEN Append(ws, Warning(t, "approximate", res.ortsteil))
                                ELSE ws]
         ELSE [markers |-> ms, warning_list |-> ws]
    ELSE [markers |-> ms, warning_list |-> Append(ws, Warning(t, "not_found", None))]

after_resolve(t, res, radius, ms, ws) ==
    IF res.coords # None
    THEN IF geodesic(center_point, res.coords) <= radius
         THEN [markers |-> Append(ms, Marker(t, res)),
               warning_list |-> IF res.is_approx
                                THEN Append(ws, Warning(t, "approximate", res.ortsteil))
                                ELSE ws]
         ELSE [markers |-> ms, warning_list |-> ws]
    ELSE [markers |-> ms, warning_list |-> Append(ws, Warning(t, "not_found", None))]

BuildMarker ==
    /\ pc = "returned"
    /\ LET r == after_resolve(data[i], ret, radius_km, markers, warning_list)
       IN  /\ markers' = r.markers
           /\ warning_list' = r.warning_list
    /\ i' = i + 1
    /\ pc' = "loop"
    \* the locals of the finished resolve call are gone
    /\ v' = 1
    /\ calls' = <<>>
    /\ ret' = NoResult
    /\ how' = "none"
    /\ pre' = EmptyCache
    /\ UNCHANGED <<geoFile, geo_cache, data, upgrades, aux>>

\* the end of the builder with the save of the geo cache left out
SaveGeoCache_skipped ==
    /\ pc = "loop"
    /\ i > Len(data)
    /\ pc' = "saved"
    /\ UNCHANGED <<geoFile, geo_cache, data, i, markers, warning_list, v, calls, ret, how, pre, upgrades, aux>>

\* generate_map, step 4: after the last ticket the geo cache is saved
SaveGeoCache ==
    /\ pc = "loop"
    /\ i > Len(data)
    /\ geoFile' = save_json_cache(geo_cache)
    /\ pc' = "saved"
    /\ UNCHANGED <<geo_cache, data, i, markers, warning_list, v, calls, ret, how, pre, upgrades, aux>>

\* the keyword arguments a call may pass to a function with the parameters
\* `params`, of which `required` have no default: Python raises TypeError for
\* an unexpected keyword and for a missing required argument
Binds(params, required, keywords) == keywords \subseteq params /\ required \subseteq keywords

\* def create_folium_map(markers, warning_list, center_point, language='de')
create_folium_map_params == {"markers", "warning_list", "center_point", "language"}
create_folium_map_required == {"markers", "warning_list", "center_point"}

\* the keywords of the call in generate_map, step 5
Step5Keywords == {"markers", "warnings", "center_point", "language"}

\* generate_map, step 5: create_folium_map is called and the map is saved
RenderMap ==
    /\ pc = "saved"
    /\ IF Binds(create_folium_map_params, create_folium_map_required, Step5Keywords)
       THEN /\ mapFile' = Some([markers |-> markers, warning_list |-> warning_list])
            /\ pc' = "done"
       ELSE /\ mapFile' = mapFile
            /\ pc' = "TypeError"
    /\ UNCHANGED <<geoFile, geo_cache, data, i, markers, warning_list, v, calls, ret,
                   how, pre, upgrades, configFile, apiFile, now, contacted, req, first, runs>>

Next ==
    \/ LoadConfig
    \/ GetTicketData(TicketLists)
    \/ StartBuild(data)
    \/ ResolveBegin
    \/ \E o \in Outcomes : GeocodeVariant(o)
    \/ \E o \in Outcomes : GeocodeLocality(o)
    \/ BuildMarker
    \/ SaveGeoCache
    \/ RenderMap

Spec == Init /\ [][Next]_vars

\* ------------------------------------------------------------------ claims
\* the current resolve call went to the geocoder (no usable cache entry)
InResolve == pc \in {"variant", "locality", "returned"}
Failed(k) == calls[k].outcome.kind \in {"none", "raise"}

\* the locality of each address of the model, written out
LocalityOf(a) == IF a = AddrCity THEN <<"b">> ELSE IF a = AddrTwo THEN <<"c">> ELSE <<>>
HasLocality(a) == a \in {AddrCity, AddrTwo}

\* C1: on a cache miss the geocoder is queried with address + ", South Tyrol,
\* Italy", then address + ", Suedtirol, Italien", then the address, in this
\* order; the first variant that yields a location ends the call, which stores
\* and returns (coords, False, None); no later variant and no locality query
\* follows a location, so a hit on the first variant is one geocoder call.
C1_FirstVariantWins ==
    InResolve =>
        /\ \A k \in 1..Len(calls) :
              /\ k = 1 => calls[k].query = address \o <<",", " ", "South Tyrol", ",", " ", "Italy">>
              /\ k = 2 => calls[k].query = address \o <<",", " ", "Suedtirol", ",", " ", "Italien">>
              /\ k = 3 => calls[k].query = address
              /\ k < Len(calls) => Failed(k)
        /\ \A k \in 1..Len(calls) :
              (k <= 3 /\ calls[k].outcome.kind = "location") =>
                  /\ Len(calls) = k
                  /\ pc = "returned"
                  /\ ret = Result(calls[k].outcome.coords, FALSE, None, "tuple")
                  /\ geo_cache = [pre EXCEPT ![address] = Three(calls[k].outcome.coords, FALSE, None, "tuple")]

C1_Witness ==
    /\ pc = "returned"
    /\ Len(calls) = 1
    /\ calls[1].outcome.kind = "location"
    /\ geo_cache[address] = Three(calls[1].outcome.coords, FALSE, None, "tuple")

\* C2: for an address with a comma and a non-empty locality after the last
\* comma, when the three variants fail the query "{locality}, South Tyrol,
\* Italy" is issued, and when it yields a location the call returns
\* (coords, True, locality) and writes exactly that under the address.
C2_LocalityFallback ==
    InResolve =>
        /\ (Len(calls) = 3 /\ Failed(3) /\ HasLocality(address)) => pc = "locality"
        /\ (pc = "locality") => (Len(calls) = 3 /\ HasLocality(address))
        /\ Len(calls) <= 4
        /\ Len(calls) = 4 =>
              /\ HasLocality(address)
              /\ calls[4].query = LocalityOf(address) \o <<",", " ", "South Tyrol", ",", " ", "Italy">>
              /\ calls[4].outcome.kind = "location" =>
                    /\ pc = "returned"
                    /\ ret = Result(calls[4].outcome.coords, TRUE, Some(LocalityOf(address)), "tuple")
                    /\ geo_cache = [pre EXCEPT ![address] =
                                       Three(calls[4].outcome.coords, TRUE, Some(LocalityOf(address)), "tuple")]

C2_Witness ==
    /\ pc = "returned"
    /\ address = AddrTwo
    /\ Len(calls) = 4
    /\ calls[4].outcome.kind = "location"
    /\ ret.is_approx
    /\ ret.ortsteil = Some(<<"c">>)

\* C3: when no variant yields a location and there is no locality, or the
\* locality query fails too, the call returns (None, False, None) after all
\* its attempts and leaves the cache as it found it, with no entry for the
\* address; and a resolve of an address without an entry goes to the geocoder.
C3_NotFoundInv ==
    (pc = "returned" /\ calls # <<>> /\ \A k \in 1..Len(calls) : Failed(k)) =>
        /\ ret = NotFound
        /\ ret.coords = <<>> /\ ~ret.is_approx /\ ret.ortsteil = <<>>
        /\ geo_cache = pre
        /\ geo_cache[address].form = "absent"
        /\ Len(calls) = IF HasLocality(address) THEN 4 ELSE 3

C3_Requeries ==
    (pc = "loop" /\ i <= Len(data) /\ pc' # "loop" /\ geo_cache[address].form = "absent") =>
        (pc' = "variant" /\ calls' = <<>> /\ geo_cache' = geo_cache)

C3_NotFoundRetried == []C3_NotFoundInv /\ [][C3_Requeries]_vars

\* the second ticket has the address of the first, which was not found, and
\* the geocoder is about to be asked again
C3_Witness ==
    /\ pc = "variant"
    /\ i = 2
    /\ data[1].Address = data[2].Address
    /\ warning_list = <<Warning(data[1], "not_found", None)>>
    /\ geo_cache[address].form = "absent"

\* C4: a resolve that finds the legacy entry [lat, lon] returns
\* ((lat, lon), False, None) without a geocoder call and leaves the
\* three-field entry in its place; no address is rewritten twice, and a later
\* resolve of the address is a plain cache hit.
C4_LegacyUpgradedOnce ==
    /\ \A a \in Addresses : upgrades[a] <= 1
    /\ pc = "returned" =>
          /\ pre[address].form = "two" <=> how = "upgrade"
          /\ how = "upgrade" =>
                /\ ret = Result(pre[address].coords, FALSE, None, "tuple")
                /\ calls = <<>>
                /\ geo_cache = [pre EXCEPT ![address] = Three(pre[address].coords, FALSE, None, "tuple")]
                /\ upgrades[address] = 1
          /\ (upgrades[address] = 1 /\ how # "upgrade") =>
                /\ how = "hit"
                /\ calls = <<>>
                /\ geo_cache = pre
                /\ ret.coords = pre[address].coords /\ ~ret.is_approx /\ ret.ortsteil = None

\* the second ticket has the address of the first, whose legacy entry was
\* rewritten: it is answered from the three-field entry
C4_Witness ==
    /\ pc = "returned"
    /\ i = 2
    /\ upgrades[address] = 1
    /\ how = "hit"
    /\ geoFile[address].form = "two"

\* C5 as stated: when resolve returns from a legacy entry, the three-field
\* entry is in the cache file on disk.
C5_PersistedBeforeReturn ==
    (pc = "returned" /\ how = "upgrade") => geoFile[address].form = "three"

\* C5, amended: when resolve returns from a legacy entry the three-field entry
\* is in the in-memory cache while the file still holds the legacy entry; the
\* file is written only by the save that follows the last ticket, and after
\* it holds the in-memory cache as JSON, the rewritten entries among them.
C5_Inv ==
    /\ (pc = "returned" /\ how = "upgrade") =>
          /\ geo_cache[address] = Three(pre[address].coords, FALSE, None, "tuple")
          /\ geoFile[address] = Legacy(pre[address].coords)
    /\ pc = "saved" =>
          /\ \A a \in Addresses :
                /\ geoFile[a].form = geo_cache[a].form
                /\ geoFile[a].coords = geo_cache[a].coords
                /\ geoFile[a].is_approx = geo_cache[a].is_approx
                /\ geoFile[a].ortsteil = geo_cache[a].ortsteil
                /\ geoFile[a].form # "absent" => geoFile[a].py = "list"
                /\ upgrades[a] = 1 => geoFile[a].form = "three"

C5_FileWrittenBySave == geoFile' # geoFile => (pc = "loop" /\ i > Len(data) /\ pc' = "saved")

C5_PersistedBySave == []C5_Inv /\ [][C5_FileWrittenBySave]_vars

C5_Witness ==
    /\ pc = "saved"
    /\ \E a \in Addresses : upgrades[a] = 1 /\ geoFile[a] = Three(center_point, FALSE, None, "list")

\* C6: a three-field entry is never changed or removed by a step of the
\* builder and the keys of the cache only grow; a resolve that finds a
\* three-field entry returns exactly its fields, approximate or not, without a
\* geocoder call.
C6_EntryKept ==
    \A a \in Addresses :
        /\ geo_cache[a].form = "three" => geo_cache'[a] = geo_cache[a]
        /\ geo_cache[a].form # "absent" => geo_cache'[a].form # "absent"

C6_HitInv ==
    (pc = "returned" /\ pre[address].form = "three") =>
        /\ how = "hit"
        /\ calls = <<>>
        /\ geo_cache = pre
        /\ ret.coords = pre[address].coords
        /\ ret.is_approx = pre[address].is_approx
        /\ ret.ortsteil = pre[address].ortsteil

C6_EntriesReusedVerbatim == []C6_HitInv /\ [][C6_EntryKept]_vars

\* the second ticket has the address of the first, which the fallback
\* resolved approximately: the stored approximate result is returned
C6_Witness ==
    /\ pc = "returned"
    /\ i = 2
    /\ how = "hit"
    /\ pre[address].py = "tuple"
    /\ ret.is_approx
    /\ ret.ortsteil = Some(LocalityOf(address))

\* C7: an exception of a geocoder call never leaves the resolver, and an
\* attempt that raised counts like one that found nothing: the resolver goes
\* on to the next variant or to the fallback, and after the last attempt
\* returns (None, False, None) with the cache as it found it.
C7_ExceptionIsFailure ==
    /\ pc # "raised"
    /\ InResolve =>
          /\ pc = "variant" => (how = "none" /\ Len(calls) = v - 1 /\ v <= 3 /\ geo_cache = pre)
          /\ pc = "locality" => (how = "none" /\ Len(calls) = 3 /\ geo_cache = pre)
          /\ \A k \in 1..Len(calls) :
                Failed(k) =>
                    \/ k < Len(calls)
                    \/ k < 3 /\ pc = "variant"
                    \/ k = 3 /\ HasLocality(address) /\ pc = "locality"
                    \/ /\ k = (IF HasLocality(address) THEN 4 ELSE 3)
                       /\ pc = "returned"
                       /\ ret = NotFound
                       /\ geo_cache = pre

\* the three variants raised and the locality query gave the location
C7_Witness ==
    /\ pc = "returned"
    /\ Len(calls) = 4
    /\ \A k \in 1..3 : calls[k].outcome.kind = "raise"
    /\ how = "locality"
    /\ geo_cache[address] = Three(ret.coords, TRUE, Some(LocalityOf(address)), "tuple")

\* the distance of coordinates c from the center point, in kilometres
Distance(c) == Abs(c[1] - center_point[1]) + Abs(c[2] - center_point[2])

\* C8 as stated: every ticket whose address the fallback resolved
\* approximately is in the warning list with reason "approximate" and its
\* locality.  Stated for the first ticket of the list, once it is processed.
C8_ApproximateAlwaysWarned ==
    (pc = "loop" /\ i = 2 /\ geo_cache[data[1].Address].is_approx
                 /\ geo_cache[data[1].Address].py = "tuple") =>
        warning_list = <<[ticket_id |-> data[1].Id, address |-> data[1].Address,
                          reason |-> "approximate",
                          ortsteil |-> Some(LocalityOf(data[1].Address))]>>

\* C8, amended: a ticket whose address resolved approximately to coordinates
\* within radius_km of the center gets a marker and, appended to the warning
\* list, the entry with reason "approximate" and the locality; one resolved
\* approximately to coordinates farther away gets neither.
C8_ApproximateStep ==
    (pc = "returned" /\ ret.is_approx) =>
        IF Distance(ret.coords) <= RadiusKm
        THEN /\ warning_list' = Append(warning_list,
                    [ticket_id |-> data[i].Id, address |-> data[i].Address,
                     reason |-> "approximate", ortsteil |-> ret.ortsteil])
             /\ Len(markers') = Len(markers) + 1
             /\ ret.ortsteil = Some(LocalityOf(data[i].Address))
        ELSE /\ warning_list' = warning_list
             /\ markers' = markers

C8_ApproximateWarnedInRadius == [][C8_ApproximateStep]_vars

\* the fallback resolved the first ticket within the radius: marker and warning
C8_Witness ==
    /\ pc = "loop"
    /\ i = 2
    /\ geo_cache[data[1].Address].is_approx
    /\ geo_cache[data[1].Address].py = "tuple"
    /\ Len(markers) = 1
    /\ warning_list = <<[ticket_id |-> data[1].Id, address |-> data[1].Address,
                         reason |-> "approximate",
                         ortsteil |-> Some(LocalityOf(data[1].Address))]>>

\* C9: a ticket whose address was not found gets no marker and one warning
\* with reason "not_found" and no locality, appended to the list, and the
\* loop goes on with the next ticket of the same list.
C9_NotFoundStep ==
    (pc = "returned" /\ ret.coords = <<>>) =>
        /\ markers' = markers
        /\ warning_list' = Append(warning_list,
               [ticket_id |-> data[i].Id, address |-> data[i].Address,
                reason |-> "not_found", ortsteil |-> <<>>])
        /\ i' = i + 1
        /\ pc' = "loop"
        /\ data' = data

C9_NotFoundWarned == [][C9_NotFoundStep]_vars

\* the first ticket was not found, the second one got its marker
C9_Witness ==
    /\ pc = "saved"
    /\ Len(data) = 2
    /\ warning_list = <<[ticket_id |-> data[1].Id, address |-> data[1].Address,
                         reason |-> "not_found", ortsteil |-> <<>>]>>
    /\ Len(markers) = 1
    /\ markers[1].ticket_id = data[2].Id
    /\ data[2].Id # data[1].Id

\* C10: a ticket whose address resolved to coordinates gets a marker exactly
\* when their distance from the center is at most radius_km; beyond it the
\* ticket adds neither a marker nor a warning.
C10_RadiusStep ==
    (pc = "returned" /\ ret.coords # <<>>) =>
        /\ IF Distance(ret.coords) <= RadiusKm
           THEN /\ Len(markers') = Len(markers) + 1
                /\ SubSeq(markers', 1, Len(markers)) = markers
                /\ markers'[Len(markers')].coords = ret.coords
                /\ markers'[Len(markers')].ticket_id = data[i].Id
           ELSE markers' = markers /\ warning_list' = warning_list
        /\ i' = i + 1

C10_RadiusFilter == [][C10_RadiusStep]_vars

\* the first ticket lies exactly radius_km from the center and has its marker,
\* the second one lies one kilometre farther and left no trace
C10_Witness ==
    /\ pc = "saved"
    /\ Len(data) = 2
    /\ data[1].Address # data[2].Address
    /\ Distance(geo_cache[data[1].Address].coords) = RadiusKm
    /\ Distance(geo_cache[data[2].Address].coords) = RadiusKm + 1
    /\ Len(markers) = 1
    /\ markers[1].coords = geo_cache[data[1].Address].coords
    /\ markers[1].ticket_id = data[1].Id
    /\ warning_list = <<>>

\* ------------------------------------------------- marker colours (SpecColor)
RECURSIVE Flatten(_)
Flatten(ps) == IF ps = <<>> THEN <<>> ELSE Head(ps) \o Flatten(Tail(ps))

Statuses == {Flatten(ps) : ps \in SeqsUpTo(StatusPieces, MaxPieces)}

\* what a resolve call can hand to the loop body
Resolutions ==
    {Result(c, FALSE, None, "tuple") : c \in Coords}
    \cup {Result(c, TRUE, extract_city(AddrCity), "tuple") : c \in Coords}
    \cup {NotFound}

\* the builder is at its only ticket, whose status is any of Statuses
InitColor ==
    /\ configFile = "present"
    /\ geoFile = EmptyCache
    /\ geo_cache = EmptyCache
    /\ pc = "status"
    /\ data \in {<<[Id |-> 1, Address |-> AddrCity, Status |-> st]>> : st \in Statuses}
    /\ i = 1
    /\ markers = <<>>
    /\ warning_list = <<>>
    /\ v = 1
    /\ calls = <<>>
    /\ ret = NoResult
    /\ how = "none"
    /\ pre = EmptyCache
    /\ upgrades = [a \in Addresses |-> 0]
    /\ InitAux

\* process_tickets_to_markers, line 295: the resolve call returns res
Resolved(res) ==
    /\ pc = "status"
    /\ ret' = res
    /\ pc' = "returned"
    /\ UNCHANGED <<geoFile, geo_cache, data, i, markers, warning_list, v, calls, how, pre, upgrades, aux>>

NextColor ==
    \/ \E res \in Resolutions : Resolved(res)
    \/ BuildMarker

SpecColor == InitColor /\ [][NextColor]_vars

\* the colour the claim gives a status: written out, on the letters of the
\* status pieces
Lowered(c) ==
    IF c = "E" THEN "e" ELSE IF c = "I" THEN "i" ELSE IF c = "B" THEN "b"
    ELSE IF c = "O" THEN "o" ELSE IF c = "F" THEN "f" ELSE IF c = "N" THEN "n" ELSE c
NotBlank(c) == c # " "
Squashed(st) == SelectSeq([k \in 1..Len(st) |-> Lowered(st[k])], NotBlank)
Inside(w, s) == \E a \in 0..Len(s) : a + Len(w) <= Len(s) /\ \A j \in 1..Len(w) : s[a + j] = w[j]
ExpectedColor(st, approx) ==
    IF approx THEN "black"
    ELSE IF Inside(<<"e", "r", "l", "e", "d", "i", "g", "t">>, Squashed(st)) THEN "green"
    ELSE IF Inside(<<"b", "e", "a", "r", "b", "e", "i", "t", "u", "n", "g">>, Squashed(st)) THEN "orange"
    ELSE IF Inside(<<"o", "f", "f", "e", "n">>, Squashed(st)) THEN "red"
    ELSE "blue"

\* C11: the marker a ticket gets is black when its resolution was approximate,
\* whatever the status; otherwise green, orange or red for the first of
\* "erledigt", "bearbeitung", "offen" that the lower-cased status without its
\* blanks contains, and blue when it contains none.  A marker of an exact
\* resolution is never black and its ticket adds nothing to the warning list.
C11_ColorStep ==
    (pc = "returned" /\ Len(markers') = Len(markers) + 1) =>
        /\ markers'[Len(markers')].color = ExpectedColor(data[i].Status, ret.is_approx)
        /\ ~ret.is_approx =>
              /\ markers'[Len(markers')].color # "black"
              /\ warning_list' = warning_list

C11_MarkerColor == [][C11_ColorStep]_vars

\* the status "OFFENErledigt" holds two of the words: the marker is green
C11_Witness ==
    /\ pc = "loop"
    /\ i = 2
    /\ data[1].Status = <<"O", "F", "F", "E", "N", "E", "r", "l", "e", "d", "i", "g", "t">>
    /\ Len(markers) = 1
    /\ markers[1].color = "green"
    /\ warning_list = <<>>

\* the exceptions a run can end with
Exceptions == {"FileNotFoundError", "AttributeError", "TypeError"}

\* C14: with a configuration file present no run of generate_map ends with an
\* exception, and a run that has ended has written the map, with the markers
\* and the warnings of the builder, to the output path.
C14_RunWritesMap ==
    configFile = "present" =>
        /\ pc \notin Exceptions
        /\ pc = "done" => mapFile = Some([markers |-> markers, warning_list |-> warning_list])

\* C15: with the configuration file missing the run ends with
\* FileNotFoundError in its first step: no ticket fetch and no geocoder call
\* is made, and the ticket snapshot, the geo-cache file and the map file are
\* never written.
C15_Inv ==
    configFile = "missing" =>
        /\ pc \in {"main", "FileNotFoundError"}
        /\ contacted = 0
        /\ req = None
        /\ calls = <<>>
        /\ apiFile = NoFile
        /\ mapFile = None
C15_Step ==
    configFile = "missing" =>
        /\ pc = "main"
        /\ pc' = "FileNotFoundError"
        /\ geoFile' = geoFile
        /\ apiFile' = apiFile
        /\ mapFile' = mapFile
C15_MissingConfigAborts == []C15_Inv /\ [][C15_Step]_vars
C15_Witness ==
    /\ configFile = "missing"
    /\ pc = "FileNotFoundError"
    /\ geoFile[AddrPlain] = Legacy(center_point)
    /\ apiFile = NoFile
    /\ mapFile = None

\* ------------------------------------------------ the builder, run twice
\* the three-field entries the geo-cache file can hold for the address a:
\* exact ones, and approximate ones with the locality of the address
ThreeFieldEntries(a) ==
    {Three(c, FALSE, None, "list") : c \in Coords}
    \cup (IF Truthy(extract_city(a))
          THEN {Three(c, TRUE, extract_city(a), "list") : c \in Coords}
          ELSE {})

\* the addresses of the tickets d
AddressesOf(d) == {d[k].Address : k \in 1..Len(d)}

\* the geo-cache files that hold a three-field entry for every address of d
PopulatedFiles(d) ==
    {[a \in Addresses |-> IF a \in AddressesOf(d) THEN f[a] ELSE NoEntry] :
        f \in {g \in [AddressesOf(d) -> UNION {ThreeFieldEntries(a) : a \in Addresses}] :
                  \A a \in AddressesOf(d) : g[a] \in ThreeFieldEntries(a)}}

\* process_tickets_to_markers is entered with tickets and the cache loaded
\* from a populated file
InitTwice ==
    /\ configFile = "present"
    /\ data \in TicketLists
    /\ geoFile \in PopulatedFiles(data)
    /\ geo_cache = load_json_cache(geoFile)
    /\ pc = "loop"
    /\ i = 1
    /\ markers = <<>>
    /\ warning_list = <<>>
    /\ v = 1
    /\ calls = <<>>
    /\ ret = NoResult
    /\ how = "none"
    /\ pre = EmptyCache
    /\ upgrades = [a \in Addresses |-> 0]
    /\ InitAux

\* the builder has returned (markers, warning_list) and is called again with
\* the same tickets, center point, radius and cache dict
SecondPass ==
    /\ pc = "loop"
    /\ i > Len(data)
    /\ first = None
    /\ first' = Some([markers |-> markers, warning_list |-> warning_list])
    /\ i' = 1
    /\ markers' = <<>>
    /\ warning_list' = <<>>
    /\ UNCHANGED <<geoFile, geo_cache, pc, data, v, calls, ret, how, pre, upgrades,
                   configFile, apiFile, now, contacted, req, mapFile, runs>>

NextTwice ==
    \/ ResolveBegin
    \/ BuildMarker
    \/ SecondPass

SpecTwice == InitTwice /\ [][NextTwice]_vars

\* C12: two builder passes over the same tickets with a cache that holds a
\* three-field entry for every ticket address return the same markers and
\* the same warnings, never reach the geocoder, and never change the cache.
C12_SecondReturned == pc = "loop" /\ i > Len(data) /\ first # None
C12_Inv ==
    /\ pc \notin {"variant", "locality"}
    /\ calls = <<>>
    /\ C12_SecondReturned =>
          (markers = first[1].markers /\ warning_list = first[1].warning_list)
C12_Idempotent == []C12_Inv /\ [][geo_cache' = geo_cache]_vars
C12_Witness ==
    /\ C12_SecondReturned
    /\ Len(data) = 2
    /\ Len(markers) >= 1
    /\ Len(warning_list) >= 1
    /\ \E a \in Addresses : geo_cache[a].form = "three" /\ geo_cache[a].is_approx

\* ------------------------------------------------ the ticket fetch, repeated
\* the ticket lists the API answers with in the calls studied on their own
Answers == {d \in TicketLists : Len(d) <= 1}

\* CACHE_FILE as a call can find it: missing, written by get_ticket_data at
\* hour 0, with a timestamp that does not parse or with none, or the bare
\* ticket list that main of generate_bkp_27012026.py writes to the same path
FetchFiles ==
    {NoFile}
    \cup {Snapshot(ts, d) : ts \in {Iso(0), Malformed, NoTimestamp}, d \in Answers}
    \cup {BareList(d) : d \in Answers}

InitFetch ==
    /\ configFile = "present"
    /\ geoFile = EmptyCache
    /\ geo_cache = EmptyCache
    /\ pc = "config"
    /\ data = <<>>
    /\ i = 1
    /\ markers = <<>>
    /\ warning_list = <<>>
    /\ v = 1
    /\ calls = <<>>
    /\ ret = NoResult
    /\ how = "none"
    /\ pre = EmptyCache
    /\ upgrades = [a \in Addresses |-> 0]
    /\ apiFile \in FetchFiles
    /\ now = 0
    /\ contacted = 0
    /\ req = None
    /\ mapFile = None
    /\ first = None
    /\ runs = 0

\* the ways a call of get_ticket_data ends
Returned == {"fetched", "cached", "AttributeError"}

\* datetime.now() moves on between two calls
Tick ==
    /\ pc \in Returned
    /\ now < MaxTime
    /\ now' = now + 1
    /\ UNCHANGED <<geoFile, geo_cache, pc, data, i, markers, warning_list, v, calls, ret,
                   how, pre, upgrades, configFile, apiFile, contacted, req, mapFile,
                   first, runs>>

\* the program is started again and comes to generate_map, step 1
LaterCall ==
    /\ pc \in Returned
    /\ pc' = "called"
    /\ UNCHANGED <<geoFile, geo_cache, data, i, markers, warning_list, v, calls, ret,
                   how, pre, upgrades, aux>>

NextFetch ==
    \/ GetTicketData(Answers)
    \/ Tick
    \/ LaterCall

SpecFetch == InitFetch /\ [][NextFetch]_vars

\* the snapshot a call found is valid in the words of the claim: caching is
\* enabled, a snapshot exists, its timestamp is present and parses, and its
\* age is strictly below the timeout
C13_Valid(r) ==
    /\ r.use_cache
    /\ r.file.kind # "absent"
    /\ r.file.timestamp.kind = "iso"
    /\ r.at - r.file.timestamp.t < r.cache_timeout_hours

\* what the claim says of the call that has just ended
C13_AsClaimed ==
    LET r == req[1]
    IN  IF C13_Valid(r)
        THEN /\ pc = "cached"
             /\ data = r.file.data
             /\ contacted = 0
             /\ apiFile = r.file
        ELSE /\ pc = "fetched"
             /\ contacted = 1
             /\ data = fetch_data_from_api(r.api)
             /\ apiFile = Snapshot(Iso(r.at), data)

\* C13: get_ticket_data returns the cached list unchanged, without
\* contacting the API and without touching the snapshot, if and only if
\* caching is enabled, a snapshot exists, its timestamp is present and parses
\* and its age is strictly below the timeout; in every other case it sends
\* one request and overwrites the snapshot with {timestamp: now, data: result}.
C13_CachedIffValid == (pc \in Returned /\ req # None) => C13_AsClaimed

\* the calls that find a JSON object, or nothing, in CACHE_FILE do as claimed
C13_ExceptBareList ==
    (pc \in Returned /\ req # None /\ req[1].file.kind # "list") => C13_AsClaimed

\* C16: a call whose API request fails returns [] without raising and
\* leaves the snapshot {timestamp: now, data: []}; the next call, made with
\* caching enabled before the timeout has elapsed since then, returns [] from
\* that snapshot and sends no request.
C16_FailureCached ==
    (pc \in Returned /\ req # None) =>
        LET r == req[1]
        IN  /\ (r.api.kind # "ok" /\ contacted = 1) =>
                  /\ pc = "fetched"
                  /\ data = <<>>
                  /\ apiFile = Snapshot(Iso(r.at), <<>>)
            /\ (/\ r.after_failure # None
                /\ r.use_cache
                /\ r.at - r.after_failure[1] < r.cache_timeout_hours) =>
                  /\ pc = "cached"
                  /\ data = <<>>
                  /\ contacted = 0
                  /\ apiFile = Snapshot(Iso(r.after_failure[1]), <<>>)
C16_Witness ==
    /\ pc = "cached"
    /\ req # None
    /\ req[1].after_failure = Some(1)
    /\ req[1].at = 2
    /\ req[1].cache_timeout_hours = 2
    /\ req[1].api.kind = "ok"
    /\ req[1].api.data # <<>>
    /\ data = <<>>
    /\ contacted = 0

\* --------------------------- generate_bkp_27012026.py: runs of its main
\* config.get('center_address', 'Bolzano'): an address without a comma
center_address == AddrPlain

\* json.load of CACHE_FILE equals the fetched list: a missing file loads as
\* {} and a JSON object as a dict, neither of which equals a list
SameAsSnapshot(fetched, file) == file.kind = "list" /\ file.data = fetched

\* what main knows of its run: --force-update and the center point
BkpRun(force_update, center) == [force_update |-> force_update, center_point |-> center]

InitBkp ==
    /\ configFile \in {"present", "missing"}
    /\ geoFile = EmptyCache
    /\ geo_cache = EmptyCache
    /\ pc = "bkp_main"
    /\ data = <<>>
    /\ i = 1
    /\ markers = <<>>
    /\ warning_list = <<>>
    /\ v = 1
    /\ calls = <<>>
    /\ ret = NoResult
    /\ how = "none"
    /\ pre = EmptyCache
    /\ upgrades = [a \in Addresses |-> 0]
    /\ InitAux

\* main, from its first line to the first geocoder call, or to its end when
\* the run is skipped or the center point comes from the geo cache: the
\* configuration and the geo cache are loaded, the tickets are fetched and
\* compared with the snapshot; unless they are equal and --force-update is
\* off the snapshot is overwritten with them and the center is resolved
BkpMain ==
    /\ pc = "bkp_main"
    /\ \E force_update \in BOOLEAN, api \in ApiOutcomes(Answers) :
        LET fetched == fetch_data_from_api(api)
            cache == load_json_cache(geoFile)
            r == cache_check(center_address, cache)
        IN  IF load_config(configFile) = "FileNotFoundError"
            THEN /\ pc' = "FileNotFoundError"
                 /\ UNCHANGED <<geo_cache, data, ret, how, upgrades, apiFile, req, contacted>>
            ELSE IF SameAsSnapshot(fetched, apiFile) /\ ~force_update
            THEN /\ pc' = "skipped"
                 /\ geo_cache' = cache
                 /\ data' = fetched
                 /\ contacted' = 1
                 /\ req' = Some(BkpRun(force_update, None))
                 /\ UNCHANGED <<ret, how, upgrades, apiFile>>
            ELSE /\ apiFile' = BareList(fetched)
                 /\ data' = fetched
                 /\ contacted' = 1
                 /\ geo_cache' = r.geo_cache
                 /\ ret' = r.ret
                 /\ how' = r.how
                 /\ upgrades' = IF r.how = "upgrade"
                                THEN [upgrades EXCEPT ![center_address] = @ + 1]
                                ELSE upgrades
                 /\ req' = Some(BkpRun(force_update, r.ret.coords))
                 /\ pc' = IF r.pc = "returned" THEN "loop" ELSE "center_variant"
    /\ UNCHANGED <<geoFile, i, markers, warning_list, v, calls, pre,
                   configFile, now, mapFile, first, runs>>

\* main, the resolve of the center address at the geocoder call for its
\* variant v, answered by o: with a location the builder starts, after the
\* last variant without one main logs the failure and returns
BkpCenterVariant(o) ==
    /\ pc = "center_variant"
    /\ calls' = Append(calls, [query |-> variants(center_address)[v], outcome |-> o])
    /\ LET r == try_variant(center_address, v, o, geo_cache)
       IN  /\ geo_cache' = r.geo_cache
           /\ ret' = r.ret
           /\ how' = r.how
           /\ v' = r.v
           /\ req' = Some(BkpRun(req[1].force_update, r.ret.coords))
           /\ pc' = IF r.pc = "variant" THEN "center_variant"
                    ELSE IF r.pc = "returned" /\ r.ret.coords # None THEN "loop"
                    ELSE "aborted"
    /\ UNCHANGED <<geoFile, data, i, markers, warning_list, pre, upgrades,
                   configFile, apiFile, now, contacted, mapFile, first, runs>>

\* addresses_within_radius, the loop body after the resolve of the ticket t
\* to res: within the radius of the center a marker, and a warning when the
\* resolution is approximate and has a locality; without coordinates a
\* warning 'not_found'
addresses_within_radius(t, res, center, radius, ms, ws) ==
    IF res.coords # None
    THEN IF geodesic(center, res.coords) <= radius
         THEN [markers |-> Append(ms, Marker(t, res)),
               warning_list |-> IF res.is_approx /\ Truthy(res.ortsteil)
                                THEN Append(ws, Warning(t, "approx", None))
                                ELSE ws]
         ELSE [markers |-> ms, warning_list |-> ws]
    ELSE [markers |-> ms, warning_list |-> Append(ws, Warning(t, "not_found", None))]

BkpBuildMarker ==
    /\ pc = "returned"
    /\ LET r == addresses_within_radius(data[i], ret, req[1].center_point, radius_km,
                                        markers, warning_list)
       IN  /\ markers' = r.markers
           /\ warning_list' = r.warning_list
    /\ i' = i + 1
    /\ pc' = "loop"
    /\ v' = 1
    /\ calls' = <<>>
    /\ ret' = NoResult
    /\ how' = "none"
    /\ pre' = EmptyCache
    /\ UNCHANGED <<geoFile, geo_cache, data, upgrades, aux>>

\* main, after the builder: the geo cache is saved and generate_map writes
\* the map of this run's tickets
BkpGenerateMap ==
    /\ pc = "loop"
    /\ i > Len(data)
    /\ geoFile' = save_json_cache(geo_cache)
    /\ mapFile' = Some([data |-> data, markers |-> markers, warning_list |-> warning_list])
    /\ pc' = "done"
    /\ UNCHANGED <<geo_cache, data, i, markers, warning_list, v, calls, ret, how, pre,
                   upgrades, configFile, apiFile, now, contacted, req, first, runs>>

\* the program has ended and is started again; the files stay as they are
BkpNextRun ==
    /\ pc \in {"skipped", "aborted", "done"}
    /\ runs < MaxRuns
    /\ runs' = runs + 1
    /\ pc' = "bkp_main"
    /\ geo_cache' = EmptyCache
    /\ data' = <<>>
    /\ i' = 1
    /\ markers' = <<>>
    /\ warning_list' = <<>>
    /\ v' = 1
    /\ calls' = <<>>
    /\ ret' = NoResult
    /\ how' = "none"
    /\ pre' = EmptyCache
    /\ contacted' = 0
    /\ req' = None
    /\ UNCHANGED <<geoFile, upgrades, configFile, apiFile, now, mapFile, first>>

NextBkp ==
    \/ BkpMain
    \/ \E o \in Outcomes : BkpCenterVariant(o)
    \/ ResolveBegin
    \/ \E o \in Outcomes : GeocodeVariant(o)
    \/ \E o \in Outcomes : GeocodeLocality(o)
    \/ BkpBuildMarker
    \/ BkpGenerateMap
    \/ BkpNextRun

SpecBkp == InitBkp /\ [][NextBkp]_vars

\* C17: a run without --force-update that is skipped because the fetched
\* tickets equal the snapshot finds the map of these tickets written by an
\* earlier run.
C17_SkipHasMap ==
    (pc = "skipped" /\ ~req[1].force_update) =>
        (mapFile # None /\ mapFile[1].data = data)

====
